---- MODULE Spec2Model ----
(***************************************************************************)
(* A model of the Docker CLI wrapper's resource handles and collection     *)
(* clients: docker_cli_wrapper/volume.py (Volume, VolumeCLI, to_list,      *)
(* VolumeInspectResult) and python_on_whales/components/network.py         *)
(* (Network, NetworkCLI).                                                  *)
(*                                                                         *)
(* Python values are tagged records [t |-> type, v |-> payload]; a text    *)
(* (str) is a sequence of tokens, so that f"{key}={value}" is a real       *)
(* concatenation; Optional[X] is <<>> (None) or <<x>>.                     *)
(***************************************************************************)
EXTENDS Integers, Sequences, FiniteSets, TLC

VARIABLES
    volumes,       \* the Volume handles constructed so far, in construction order
    inspectCalls,  \* per handle: "volume inspect" commands handed to run() (instrumentation)
    now,           \* datetime.now(), in ticks of 0.1 s
    last,          \* the operation that just completed, with what it started from
    mark,          \* instrumentation: the latest completed explicit reload() and the reads after it
    call,          \* a collection-client call: the operation and its arguments
    ret,           \* what that call did: the commands run, the value returned or the error raised
    pc             \* position of the caller of that call

vars == <<volumes, inspectCalls, now, last, mark, call, ret, pc>>

(***************************************************************************)
(* Bounds of the model.                                                    *)
(***************************************************************************)
MaxHandles == 2
MaxCalls == 2
MaxTicks == 3
MaxJsonLen == 1
MaxEntries == 2
MaxRefs == 2

(***************************************************************************)
(* Program constants.                                                      *)
(***************************************************************************)
\* the literal 0.2 of _needs_reload, in ticks of 0.1 s
Threshold == 2
\* datetime.min
DatetimeMin == 0

\* The clock reading when the program starts: the present is far more than
\* the threshold away from datetime.min (year 1).
StartTime == DatetimeMin + Threshold + 1

None == <<>>
Some(x) == <<x>>

\* Python values
PyStr(s) == [t |-> "str", v |-> s]
PyList(xs) == [t |-> "list", v |-> xs]
PyNone == [t |-> "None", v |-> <<>>]
PyInt == [t |-> "int", v |-> <<>>]
\* a one-word str literal of the source
W(w) == PyStr(<<w>>)

\* self._docker_cmd / self.docker_cmd: the invocation prefix
DockerCmd == <<W("docker")>>

(***************************************************************************)
(* The subprocess layer: run(cmd) raises, or returns the stdout text.      *)
(* For "volume inspect" the stdout is not JSON at all, or a JSON list of   *)
(* objects; a JSON object carries or lacks each field of the schema.       *)
(***************************************************************************)
JsonObjects ==
    {[CreatedAt |-> "t1", Driver |-> "local"], [CreatedAt |-> "t2", Driver |-> "nfs"],
     [CreatedAt |-> "t1", Driver |-> "Missing"]}

SeqsUpTo(S, n) == UNION {[1..k -> S] : k \in 0..n}

InspectOutputs ==
    {[kind |-> "raise", val |-> <<>>], [kind |-> "text", val |-> <<>>]}
    \cup {[kind |-> "json", val |-> objs] : objs \in SeqsUpTo(JsonObjects, MaxJsonLen)}

\* the run layer is not consulted
NoOut == [kind |-> "none", val |-> <<>>]

\* VolumeInspectResult.parse_obj: every declared field without a default is
\* required; the model carries CreatedAt and Driver, the two that are read.
ParseObj(obj) ==
    IF obj.CreatedAt = "Missing" \/ obj.Driver = "Missing"
    THEN [err |-> "ValidationError", val |-> None]
    ELSE [err |-> "ok", val |-> Some([CreatedAt |-> obj.CreatedAt, Driver |-> obj.Driver])]

\* json.loads(json_str)[0]
JsonLoadsFirst(out) ==
    IF out.kind = "text" THEN [err |-> "JSONDecodeError", val |-> None]
    ELSE IF Len(out.val) = 0 THEN [err |-> "IndexError", val |-> None]
    ELSE [err |-> "ok", val |-> Some(out.val[1])]

(***************************************************************************)
(* Volume                                                                  *)
(***************************************************************************)
\* Volume.__init__
NewVolume(name) ==
    [name |-> name, inspect_result |-> None, last_refreshed_time |-> DatetimeMin]

\* Python's ordering comparison a <= b: defined between two timedeltas (or
\* two floats); a timedelta against a float raises TypeError.
PyLe(a, b) ==
    IF a.ty = b.ty THEN [err |-> "ok", val |-> a.n <= b.n]
    ELSE [err |-> "TypeError", val |-> FALSE]

\* Volume._needs_reload: (datetime.now() - self._last_refreshed_time) <= 0.2
\* The variant NeedsReloadFixed compares against a timedelta, with >.
NeedsReloadFixed(v, t) ==
    [err |-> "ok", val |-> (t - v.last_refreshed_time) > Threshold]

NeedsReload(v, t) ==
    PyLe([ty |-> "timedelta", n |-> t - v.last_refreshed_time],
         [ty |-> "float", n |-> Threshold])

\* Volume.reload: the handle after the call and how the call ended. Each
\* statement that raises leaves the statements after it unexecuted.
\* The variant ReloadStoresUnvalidated assigns the object before validating it.
ReloadStoresUnvalidated(v, out) ==
    IF out.kind = "raise" THEN [err |-> "DockerException", v |-> v]
    ELSE LET first == JsonLoadsFirst(out) IN
         IF first.err # "ok" THEN [err |-> first.err, v |-> v]
         ELSE LET parsed == ParseObj(first.val[1]) IN
              [err |-> parsed.err,
               v |-> [v EXCEPT !.inspect_result = Some(first.val[1])]]

Reload(v, out) ==
    IF out.kind = "raise" THEN [err |-> "DockerException", v |-> v]
    ELSE LET first == JsonLoadsFirst(out) IN
         IF first.err # "ok" THEN [err |-> first.err, v |-> v]
         ELSE LET parsed == ParseObj(first.val[1]) IN
              IF parsed.err # "ok" THEN [err |-> parsed.err, v |-> v]
              ELSE [err |-> "ok", v |-> [v EXCEPT !.inspect_result = parsed.val]]

\* Volume._reload_if_necessary; ran tells whether reload() was called.
\* The variant ReloadIfNecessaryAlways reloads without asking _needs_reload.
ReloadIfNecessaryAlways(v, t, out) ==
    LET r == Reload(v, out) IN [err |-> r.err, v |-> r.v, ran |-> TRUE]

ReloadIfNecessary(v, t, out) ==
    LET need == NeedsReload(v, t) IN
    IF need.err # "ok" THEN [err |-> need.err, v |-> v, ran |-> FALSE]
    ELSE IF need.val
         THEN LET r == Reload(v, out) IN [err |-> r.err, v |-> r.v, ran |-> TRUE]
         ELSE [err |-> "ok", v |-> v, ran |-> FALSE]

\* Volume.created_at / Volume.driver: attr is "CreatedAt" or "Driver"
ReadAttr(v, attr, t, out) ==
    LET r == ReloadIfNecessary(v, t, out) IN
    IF r.err # "ok" THEN [err |-> r.err, val |-> "", v |-> r.v, ran |-> r.ran]
    ELSE IF r.v.inspect_result = None
         THEN [err |-> "AttributeError", val |-> "", v |-> r.v, ran |-> r.ran]
         ELSE [err |-> "ok", val |-> r.v.inspect_result[1][attr], v |-> r.v, ran |-> r.ran]

\* whether an attribute read reaches run(): only through reload()
ReadRuns(v, t) == ReloadIfNecessary(v, t, NoOut).ran

\* the first object of the JSON list the run layer returned, if there is one
FirstObject(out) ==
    IF out.kind = "json" /\ Len(out.val) > 0 THEN Some(out.val[1]) ELSE None

Attrs == {"CreatedAt", "Driver"}
\* names of volumes and networks
VolumeNames == {<<"a">>, <<"b">>}
\* the volume the handles that are followed over time refer to
HandleNames == {<<"a">>}

NoLast ==
    [op |-> "none", h |-> 0, err |-> "ok", val |-> "", before |-> None,
     callsBefore |-> 0, first |-> None, cmd |-> <<>>]
NoMark == [h |-> 0, calls |-> 0, at |-> 0, reads |-> 0]

Handles == 1..Len(volumes)

NoCall ==
    [op |-> "none", volume_name |-> <<>>, driver |-> <<>>, labels |-> <<>>,
     options |-> <<>>, x |-> [t |-> "None", v |-> <<>>]]
NoResult ==
    [cmds |-> <<>>, err |-> "ok", val |-> [t |-> "None", v |-> <<>>],
     blockRaised |-> FALSE, exitErr |-> "ok"]

RECURSIVE Sum(_)
Sum(ns) == IF ns = <<>> THEN 0 ELSE Head(ns) + Sum(Tail(ns))
\* inspect commands run so far, over all handles
TotalCalls == Sum(inspectCalls)

Init ==
    /\ volumes = <<>>
    /\ inspectCalls = <<>>
    /\ now = StartTime
    /\ last = NoLast
    /\ mark = NoMark
    /\ call = NoCall
    /\ ret = NoResult
    /\ pc = "idle"

\* time passes between two operations (the mark is dropped once the window
\* of its reload is over)
Tick ==
    /\ now < StartTime + MaxTicks
    /\ now' = now + 1
    /\ last' = NoLast
    /\ mark' = IF mark.h # 0 /\ now + 1 - mark.at > Threshold THEN NoMark ELSE mark
    /\ UNCHANGED <<volumes, inspectCalls, call, ret, pc>>

\* a handle made by direct reference: Volume(docker_cmd, name)
VolumeConstruct ==
    /\ Len(volumes) < MaxHandles
    /\ \E name \in HandleNames :
          /\ volumes' = Append(volumes, NewVolume(name))
          /\ inspectCalls' = Append(inspectCalls, 0)
          /\ last' = [NoLast EXCEPT !.op = "construct", !.h = Len(volumes) + 1]
    /\ UNCHANGED <<now, mark, call, ret, pc>>

\* the caller calls h.reload()
VolumeReload ==
    \E h \in Handles, out \in InspectOutputs :
       LET r == Reload(volumes[h], out) IN
       /\ TotalCalls < MaxCalls
       /\ volumes' = [volumes EXCEPT ![h] = r.v]
       /\ inspectCalls' = [inspectCalls EXCEPT ![h] = @ + 1]
       /\ last' = [NoLast EXCEPT !.op = "reload", !.h = h, !.err = r.err,
                                 !.before = Some(volumes[h]),
                                 !.callsBefore = inspectCalls[h],
                                 !.first = FirstObject(out)]
       /\ mark' = IF r.err = "ok"
                  THEN [h |-> h, calls |-> inspectCalls[h] + 1, at |-> now, reads |-> 0]
                  ELSE IF mark.h = h THEN NoMark ELSE mark
       /\ UNCHANGED <<now, call, ret, pc>>

\* the caller reads h.created_at or h.driver
VolumeRead ==
    \E h \in Handles, attr \in Attrs :
    \E out \in (IF ReadRuns(volumes[h], now) THEN InspectOutputs ELSE {NoOut}) :
       LET r == ReadAttr(volumes[h], attr, now, out)
           n == IF r.ran THEN 1 ELSE 0
       IN
       /\ TotalCalls + n <= MaxCalls
       /\ volumes' = [volumes EXCEPT ![h] = r.v]
       /\ inspectCalls' = [inspectCalls EXCEPT ![h] = @ + n]
       /\ last' = [NoLast EXCEPT !.op = "read", !.h = h, !.err = r.err, !.val = r.val,
                                 !.before = Some(volumes[h]),
                                 !.callsBefore = inspectCalls[h],
                                 !.first = FirstObject(out)]
       /\ mark' = IF mark.h # h THEN mark
                  ELSE IF now - mark.at <= Threshold
                       THEN [mark EXCEPT !.reads = IF @ < 2 THEN @ + 1 ELSE @]
                       ELSE NoMark
       /\ UNCHANGED <<now, call, ret, pc>>


(***************************************************************************)
(* VolumeCLI, to_list                                                      *)
(***************************************************************************)
\* a Volume object passed as an argument
VolumeObj(name) == [t |-> "Volume", v |-> name]

\* to_list (the variant ToListAlwaysWraps wraps a list as well)
ToListAlwaysWraps(x) == <<x>>

ToList(x) == IF x.t = "list" THEN x.v ELSE <<x>>

\* str(v): Volume.__str__ returns the name (the payload of a Volume
\* argument); str of a str is the str; any other object prints as some
\* text of its own
Str(v) ==
    IF v.t = "Volume" THEN v.v
    ELSE IF v.t = "str" THEN v.v
    ELSE <<"<", v.t, ">">>

\* VolumeCLI._make_cli_cmd
MakeCliCmd == DockerCmd \o <<W("volume")>>

\* f"{key}={value}"
FormatKV(key, value) == key \o <<"=">> \o value

\* for key, value in d.items(): full_cmd += [flag, f"{key}={value}"]
\* (a dict is the sequence of its items, keys distinct, in insertion order).
\* The variant FlagArgsDropsLast stops one item early.
RECURSIVE FlagArgsDropsLast(_, _)
FlagArgsDropsLast(flag, d) ==
    IF Len(d) <= 1 THEN <<>>
    ELSE <<W(flag), PyStr(FormatKV(d[1][1], d[1][2]))>> \o FlagArgsDropsLast(flag, Tail(d))

RECURSIVE FlagArgs(_, _)
FlagArgs(flag, d) ==
    IF d = <<>> THEN <<>>
    ELSE <<W(flag), PyStr(FormatKV(d[1][1], d[1][2]))>> \o FlagArgs(flag, Tail(d))

\* VolumeCLI.create: the command it builds
VolumeCreateCmd(volume_name, driver, labels, options) ==
    MakeCliCmd \o <<W("create")>>
    \o (IF volume_name # None THEN <<PyStr(volume_name[1])>> ELSE <<>>)
    \o (IF driver # None THEN <<W("--driver"), PyStr(driver[1])>> ELSE <<>>)
    \o FlagArgs("--label", labels)
    \o FlagArgs("--opt", options)

\* what a collection-client call did
Result(cmds, err, val) ==
    [cmds |-> cmds, err |-> err, val |-> val, blockRaised |-> FALSE, exitErr |-> "ok"]

\* VolumeCLI.create; out is what run(full_cmd) does
VolumeCLI_create(volume_name, driver, labels, options, out) ==
    LET full_cmd == VolumeCreateCmd(volume_name, driver, labels, options) IN
    IF out.kind = "raise" THEN Result(<<full_cmd>>, "DockerException", PyNone)
    ELSE Result(<<full_cmd>>, "ok", VolumeObj(out.val))

\* @typechecked, for x: Union[VolumeArg, List[VolumeArg]]
IsVolumeArg(v) == v.t \in {"Volume", "str"}
TypeChecks(x) ==
    \/ IsVolumeArg(x)
    \/ x.t = "list" /\ \A i \in 1..Len(x.v) : IsVolumeArg(x.v[i])

\* str.split("\n")
RECURSIVE SplitLines(_, _)
SplitLines(text, acc) ==
    IF text = <<>> THEN <<PyStr(acc)>>
    ELSE IF Head(text) = "\n" THEN <<PyStr(acc)>> \o SplitLines(Tail(text), <<>>)
    ELSE SplitLines(Tail(text), Append(acc, Head(text)))

\* VolumeCLI.remove
VolumeRemoveCmd(x) ==
    MakeCliCmd \o <<W("remove")>>
    \o [i \in 1..Len(ToList(x)) |-> PyStr(Str(ToList(x)[i]))]

VolumeCLI_remove(x, out) ==
    IF ~TypeChecks(x) THEN Result(<<>>, "TypeError", PyNone)
    ELSE LET full_cmd == VolumeRemoveCmd(x) IN
         IF out.kind = "raise" THEN Result(<<full_cmd>>, "DockerException", PyNone)
         ELSE Result(<<full_cmd>>, "ok", PyList(SplitLines(out.val, <<>>)))

(***************************************************************************)
(* Network, NetworkCLI                                                     *)
(***************************************************************************)
\* Network.__init__: the arguments handed to the base class
NetworkObj(reference, is_immutable_id) ==
    [t |-> "Network", v |-> [reference |-> reference, is_immutable_id |-> is_immutable_id]]

\* NetworkCLI.remove
NetworkRemoveCmd(networks) ==
    DockerCmd \o <<W("network"), W("remove")>> \o ToList(networks)

NetworkCLI_remove(networks, out) ==
    LET full_cmd == NetworkRemoveCmd(networks) IN
    IF out.kind = "raise" THEN Result(<<full_cmd>>, "DockerException", PyNone)
    ELSE Result(<<full_cmd>>, "ok", PyNone)

\* NetworkCLI.inspect (the variant NetworkCLI_inspectReversed walks the list
\* from its end)
NetworkCLI_inspectReversed(x) ==
    IF x.t = "str" THEN Result(<<>>, "ok", NetworkObj(x.v, FALSE))
    ELSE Result(<<>>, "ok",
                PyList([i \in 1..Len(x.v) |-> NetworkObj(x.v[Len(x.v) + 1 - i].v, FALSE)]))

NetworkCLI_inspect(x) ==
    IF x.t = "str" THEN Result(<<>>, "ok", NetworkObj(x.v, FALSE))
    ELSE Result(<<>>, "ok", PyList([i \in 1..Len(x.v) |-> NetworkObj(x.v[i].v, FALSE)]))

\* Network.remove
Network_remove(self, out) == NetworkCLI_remove(self, out)

\* Network.__exit__: the remove it runs; it returns None, so the with
\* statement does not suppress the block's exception. The variant
\* Network_exitSkipsRemove leaves the network in place.
Network_exitSkipsRemove(self, out) ==
    [r |-> Result(<<>>, "ok", PyNone), suppress |-> FALSE]

Network_exit(self, out) ==
    [r |-> Network_remove(self, out), suppress |-> FALSE]

\* The command builder the network client's docker_cmd is: add_flag,
\* add_simple_arg, add_args_list; and format_dict_for_cli
AddFlag(cmd, name, value) == IF value THEN cmd \o <<W(name)>> ELSE cmd

AddSimpleArg(cmd, name, value) ==
    IF value # None THEN cmd \o <<W(name), PyStr(value[1])>> ELSE cmd

RECURSIVE AddArgsList(_, _, _)
AddArgsList(cmd, name, items) ==
    IF items = <<>> THEN cmd
    ELSE AddArgsList(cmd \o <<W(name), PyStr(items[1])>>, name, Tail(items))

FormatDictForCli(d) == [i \in 1..Len(d) |-> FormatKV(d[i][1], d[i][2])]

\* NetworkCLI.create
NetworkCLI_create(name, attachable, driver, gateway, subnet, options, out) ==
    LET c0 == DockerCmd \o <<W("network"), W("create")>>
        c1 == AddFlag(c0, "--attachable", attachable)
        c2 == AddSimpleArg(c1, "--driver", driver)
        c3 == AddSimpleArg(c2, "--gateway", gateway)
        c4 == AddSimpleArg(c3, "--subnet", subnet)
        c5 == AddArgsList(c4, "--opt", options)
        full_cmd == Append(c5, PyStr(name))
    IN IF out.kind = "raise" THEN Result(<<full_cmd>>, "DockerException", PyNone)
       ELSE Result(<<full_cmd>>, "ok", NetworkObj(out.val, TRUE))

\* NetworkCLI.list
NetworkCLI_list(filters, out) ==
    LET c0 == DockerCmd \o <<W("network"), W("list"), W("--no-trunc"), W("--quiet")>>
        full_cmd == AddArgsList(c0, "--filter", FormatDictForCli(filters))
    IN IF out.kind = "raise" THEN Result(<<full_cmd>>, "DockerException", PyNone)
       ELSE LET ids == SplitLines(out.val, <<>>) IN
            Result(<<full_cmd>>, "ok",
                   PyList([i \in 1..Len(ids) |-> NetworkObj(ids[i].v, TRUE)]))

\* NetworkCLI.prune
NetworkCLI_prune(filters, out) ==
    LET c0 == DockerCmd \o <<W("network"), W("prune"), W("--force")>>
        full_cmd == AddArgsList(c0, "--filter", FormatDictForCli(filters))
    IN IF out.kind = "raise" THEN Result(<<full_cmd>>, "DockerException", PyNone)
       ELSE Result(<<full_cmd>>, "ok", PyNone)

(***************************************************************************)
(* Collection-client calls made while handles exist.                       *)
(***************************************************************************)
\* what run() does with a command that prints references: it raises, or
\* returns the text
RunOutputs ==
    {[kind |-> "raise", val |-> <<>>]} \cup {[kind |-> "text", val |-> n] : n \in VolumeNames}
\* the same for the create command of a volume that is followed over time
CreateOutputs ==
    {[kind |-> "raise", val |-> <<>>]} \cup {[kind |-> "text", val |-> n] : n \in HandleNames}

\* a collection-client call just completed
Called(op, r) == [NoLast EXCEPT !.op = op, !.err = r.err]

\* docker.volume.create(...): the handle it returns joins the handles
VolumeCreate ==
    /\ Len(volumes) < MaxHandles
    /\ \E volume_name \in {None} \cup {Some(n) : n \in HandleNames}, out \in CreateOutputs :
          LET r == VolumeCLI_create(volume_name, None, <<>>, <<>>, out) IN
          /\ volumes' = IF r.err = "ok" THEN Append(volumes, NewVolume(r.val.v)) ELSE volumes
          /\ inspectCalls' = IF r.err = "ok" THEN Append(inspectCalls, 0) ELSE inspectCalls
          /\ last' = Called("VolumeCLI.create", r)
    /\ UNCHANGED <<now, mark, call, ret, pc>>

\* docker.volume.remove(x), x a handle, a name or a list. The variant
\* VolumeRemoveClearsCache also empties the cache of the handles removed.
VolumeRemoveClearsCache ==
    /\ \E x \in {VolumeObj(volumes[h].name) : h \in Handles}
                \cup {PyList(<<PyStr(n)>>) : n \in VolumeNames},
          out \in {[kind |-> "raise", val |-> <<>>], [kind |-> "text", val |-> <<>>]} :
          LET r == VolumeCLI_remove(x, out) IN
          /\ last' = [Called("VolumeCLI.remove", r) EXCEPT !.cmd = r.cmds]
          /\ volumes' = [h \in Handles |->
                           IF r.err = "ok" /\ PyStr(volumes[h].name) \in
                                  {r.cmds[1][i] : i \in 1..Len(r.cmds[1])}
                           THEN [volumes[h] EXCEPT !.inspect_result = None]
                           ELSE volumes[h]]
    /\ UNCHANGED <<inspectCalls, now, mark, call, ret, pc>>

VolumeRemove ==
    /\ \E x \in {VolumeObj(volumes[h].name) : h \in Handles}
                \cup {PyList(<<PyStr(n)>>) : n \in VolumeNames},
          out \in {[kind |-> "raise", val |-> <<>>], [kind |-> "text", val |-> <<>>]} :
          LET r == VolumeCLI_remove(x, out) IN
          last' = [Called("VolumeCLI.remove", r) EXCEPT !.cmd = r.cmds]
    /\ UNCHANGED <<volumes, inspectCalls, now, mark, call, ret, pc>>

\* docker.network.create(...)
NetworkCreate ==
    /\ \E out \in CreateOutputs :
          last' = Called("NetworkCLI.create",
                         NetworkCLI_create(<<"a">>, TRUE, Some(<<"bridge">>), None, None,
                                           <<>>, out))
    /\ UNCHANGED <<volumes, inspectCalls, now, mark, call, ret, pc>>

\* docker.network.inspect(x)
NetworkInspect ==
    /\ last' = Called("NetworkCLI.inspect", NetworkCLI_inspect(PyStr(<<"a">>)))
    /\ UNCHANGED <<volumes, inspectCalls, now, mark, call, ret, pc>>

\* docker.network.list()
NetworkList ==
    /\ \E out \in CreateOutputs : last' = Called("NetworkCLI.list", NetworkCLI_list(<<>>, out))
    /\ UNCHANGED <<volumes, inspectCalls, now, mark, call, ret, pc>>

\* docker.network.prune()
NetworkPrune ==
    /\ \E out \in CreateOutputs : last' = Called("NetworkCLI.prune", NetworkCLI_prune(<<>>, out))
    /\ UNCHANGED <<volumes, inspectCalls, now, mark, call, ret, pc>>

\* docker.network.remove(x)
NetworkRemove ==
    /\ \E out \in CreateOutputs :
          last' = Called("NetworkCLI.remove", NetworkCLI_remove(PyStr(<<"a">>), out))
    /\ UNCHANGED <<volumes, inspectCalls, now, mark, call, ret, pc>>

(***************************************************************************)
(* One collection-client call, from its arguments to what it ran and       *)
(* returned.                                                               *)
(***************************************************************************)
\* texts for keys and values: words, with and without an "=" in them
Keys == {<<"env">>, <<"a">>, <<"a", "=">>}
Values == {<<"prod">>, <<"=", "prod">>}

\* Dict[str, str]: items in insertion order, keys distinct
Dicts ==
    {d \in SeqsUpTo(Keys \X Values, MaxEntries) :
        \A i, j \in 1..Len(d) : i # j => d[i][1] # d[j][1]}

VolumeArgs == {PyStr(n) : n \in VolumeNames} \cup {VolumeObj(n) : n \in VolumeNames}
NetworkArgs == {PyStr(n) : n \in VolumeNames} \cup {NetworkObj(n, TRUE) : n \in VolumeNames}

CallOf(op, x) == [NoCall EXCEPT !.op = op, !.x = x]

Calls ==
    {[NoCall EXCEPT !.op = "VolumeCLI.create", !.volume_name = vn, !.driver = dr,
                    !.labels = ls, !.options = os] :
        vn \in {None, Some(<<"v">>), Some(<<"--label">>)},
        dr \in {None, Some(<<"local">>)}, ls \in Dicts, os \in Dicts}
    \cup {CallOf("VolumeCLI.remove", x) :
            x \in VolumeArgs \cup {PyInt, PyList(<<PyInt>>)}
                  \cup {PyList(xs) : xs \in SeqsUpTo(VolumeArgs, MaxRefs)}}
    \cup {CallOf("NetworkCLI.remove", x) :
            x \in NetworkArgs \cup {PyList(xs) : xs \in SeqsUpTo(NetworkArgs, MaxRefs)}}
    \cup {CallOf("NetworkCLI.inspect", x) :
            x \in {PyStr(n) : n \in VolumeNames}
                  \cup {PyList(xs) : xs \in SeqsUpTo({PyStr(n) : n \in VolumeNames}, MaxRefs)}}
    \cup {CallOf("with", NetworkObj(n, TRUE)) : n \in VolumeNames}

\* what run() does with a remove command: it raises, or prints the names
RemoveOutputs ==
    {[kind |-> "raise", val |-> <<>>], [kind |-> "text", val |-> <<"a">>],
     [kind |-> "text", val |-> <<"a", "\n", "b">>]}

InitCmd ==
    /\ volumes = <<>>
    /\ inspectCalls = <<>>
    /\ now = StartTime
    /\ last = NoLast
    /\ mark = NoMark
    /\ call \in Calls
    /\ ret = NoResult
    /\ pc = "start"

Handle == <<volumes, inspectCalls, now, last, mark>>

CallVolumeCreate ==
    /\ pc = "start" /\ call.op = "VolumeCLI.create"
    /\ \E out \in RunOutputs :
          ret' = VolumeCLI_create(call.volume_name, call.driver, call.labels,
                                  call.options, out)
    /\ pc' = "done"
    /\ UNCHANGED <<Handle, call>>

CallVolumeRemove ==
    /\ pc = "start" /\ call.op = "VolumeCLI.remove"
    /\ \E out \in RemoveOutputs : ret' = VolumeCLI_remove(call.x, out)
    /\ pc' = "done"
    /\ UNCHANGED <<Handle, call>>

CallNetworkRemove ==
    /\ pc = "start" /\ call.op = "NetworkCLI.remove"
    /\ \E out \in RemoveOutputs : ret' = NetworkCLI_remove(call.x, out)
    /\ pc' = "done"
    /\ UNCHANGED <<Handle, call>>

CallNetworkInspect ==
    /\ pc = "start" /\ call.op = "NetworkCLI.inspect"
    /\ ret' = NetworkCLI_inspect(call.x)
    /\ pc' = "done"
    /\ UNCHANGED <<Handle, call>>

\* with net as my_net: Network.__enter__ returns self
WithEnter ==
    /\ pc = "start" /\ call.op = "with"
    /\ ret' = Result(<<>>, "ok", call.x)
    /\ pc' = "block"
    /\ UNCHANGED <<Handle, call>>

\* the body of the with statement finishes, or raises
WithBlock ==
    /\ pc = "block"
    /\ \E raises \in BOOLEAN :
          ret' = [ret EXCEPT !.blockRaised = raises, !.err = IF raises THEN "BlockError" ELSE "ok"]
    /\ pc' = "exit"
    /\ UNCHANGED <<Handle, call>>

\* leaving the with statement: Network.__exit__ runs; an exception it raises
\* replaces the block's, and otherwise the block's is re-raised unless
\* __exit__ returned a true value
WithExit ==
    /\ pc = "exit"
    /\ \E out \in RemoveOutputs :
          LET e == Network_exit(call.x, out) IN
          ret' = [ret EXCEPT !.cmds = @ \o e.r.cmds,
                             !.exitErr = e.r.err,
                             !.err = IF e.r.err # "ok" THEN e.r.err
                                     ELSE IF ret.blockRaised /\ ~e.suppress THEN "BlockError"
                                     ELSE "ok"]
    /\ pc' = "done"
    /\ UNCHANGED <<Handle, call>>

NextCmd ==
    \/ CallVolumeCreate
    \/ CallVolumeRemove
    \/ CallNetworkRemove
    \/ CallNetworkInspect
    \/ WithEnter
    \/ WithBlock
    \/ WithExit

SpecCmd == InitCmd /\ [][NextCmd]_vars

Next ==
    \/ Tick
    \/ VolumeConstruct
    \/ VolumeReload
    \/ VolumeRead
    \/ VolumeCreate
    \/ VolumeRemove
    \/ NetworkCreate
    \/ NetworkInspect
    \/ NetworkList
    \/ NetworkPrune
    \/ NetworkRemove

Spec == Init /\ [][Next]_vars

(***************************************************************************)
(* Properties                                                              *)
(***************************************************************************)
\* the handle the last operation acted on, as it was before and as it is now
Before == last.before[1]
After == volumes[last.h]

\* C1: once a reload() of a handle has completed, attribute reads of that
\* handle made within the debounce window of that reload run no further
\* inspect command: the handle's inspect call count is still the one it had
\* right after the reload. (mark is dropped by a read outside the window.)
C1_ReadsInWindowRunNoInspect ==
    mark.h # 0 => inspectCalls[mark.h] = mark.calls

\* two reads (created_at, driver) made within the window after one reload
C1_Witness ==
    /\ mark.h # 0 /\ mark.reads = 2
    /\ last.op = "read" /\ last.h = mark.h
    /\ now - mark.at <= Threshold

\* C2: an attribute read made when more than the threshold has elapsed since
\* last_refreshed_time (the first read of a fresh handle included) runs
\* inspect exactly once before it returns.
C2_StaleReadRefreshesOnce ==
    (last.op = "read" /\ now - Before.last_refreshed_time > Threshold)
        => inspectCalls[last.h] = last.callsBefore + 1

\* C3: a reload() that fails (the subprocess fails, its output is no JSON,
\* holds no object, or the object does not validate) ends in an error and
\* leaves the cached result exactly as it was; no handle ever caches a
\* result with a field missing.
C3_FailedReloadKeepsCache ==
    /\ (last.op = "reload" /\ last.err # "ok")
          => After.inspect_result = Before.inspect_result
    /\ (last.op = "reload" /\ (last.first = None \/ last.first[1].Driver = "Missing"
                                                 \/ last.first[1].CreatedAt = "Missing"))
          => last.err # "ok"
    /\ \A h \in Handles :
          \/ volumes[h].inspect_result = None
          \/ /\ volumes[h].inspect_result[1].CreatedAt # "Missing"
             /\ volumes[h].inspect_result[1].Driver # "Missing"

\* a reload that got an object with a field missing, on a handle that holds
\* an earlier snapshot
C3_Witness ==
    /\ last.op = "reload" /\ last.err = "ValidationError"
    /\ Before.inspect_result # None
    /\ last.first # None /\ last.first[1].CreatedAt # "Missing"

\* C4: an attribute read on a handle whose cache was never populated ends in
\* an error and returns no value.
C4_ReadOfEmptyHandleFails ==
    (last.op = "read" /\ Before.inspect_result = None) => last.err # "ok"

\* a read on a handle whose only reload so far failed
C4_Witness ==
    /\ last.op = "read" /\ Before.inspect_result = None
    /\ last.callsBefore > 0 /\ last.err # "ok"

\* C9: a successful reload() runs inspect exactly once, replaces the cached
\* result by the parsed first JSON object, and sets last_refreshed_time to
\* the current time.
C9_ReloadStoresAndStamps ==
    (last.op = "reload" /\ last.err = "ok")
        => /\ inspectCalls[last.h] = last.callsBefore + 1
           /\ After.inspect_result =
                 Some([CreatedAt |-> last.first[1].CreatedAt, Driver |-> last.first[1].Driver])
           /\ After.last_refreshed_time = now

\* C10: in every step, every existing handle is still there, and its cached
\* result and last_refreshed_time change only in a step in which that very
\* handle ran its inspect command (its own reload()); no collection-client
\* call and no other handle's reload changes them.
C10_OnlyOwnReloadMutates ==
    [][\A h \in Handles :
          /\ Len(volumes') >= h
          /\ volumes'[h].name = volumes[h].name
          /\ (\/ volumes'[h].inspect_result # volumes[h].inspect_result
              \/ volumes'[h].last_refreshed_time # volumes[h].last_refreshed_time)
                => /\ last'.op \in {"reload", "read"}
                   /\ last'.h = h
                   /\ inspectCalls'[h] = inspectCalls[h] + 1]_vars

\* a volume has just been removed remotely while a handle that refers to it
\* holds a snapshot, and another handle exists
C10_Witness ==
    /\ last.op = "VolumeCLI.remove" /\ last.err = "ok"
    /\ Len(volumes) = 2
    /\ \E h \in Handles :
          /\ volumes[h].inspect_result # None
          /\ \E i \in 1..Len(last.cmd[1]) : last.cmd[1][i] = PyStr(volumes[h].name)

\* the arguments a remove call is given, one by one
GivenRefs == IF call.x.t = "list" THEN call.x.v ELSE <<call.x>>
\* the text of a reference: a handle's name or reference, or the str itself
RefText(r) == IF r.t = "Network" THEN r.v.reference ELSE r.v

\* C5: VolumeCLI.remove and NetworkCLI.remove run one command: the prefix,
\* the subcommand, then the references in input order; a single reference r
\* runs the command that the one-element list [r] runs.
C5_RemoveSingleIsSingleton ==
    (pc = "done" /\ ret.err # "TypeError") =>
       /\ call.op = "VolumeCLI.remove" =>
             /\ ret.cmds = << <<W("docker"), W("volume"), W("remove")>>
                              \o [i \in 1..Len(GivenRefs) |-> PyStr(RefText(GivenRefs[i]))] >>
             /\ call.x.t # "list" => ret.cmds = <<VolumeRemoveCmd(PyList(<<call.x>>))>>
       /\ call.op = "NetworkCLI.remove" =>
             /\ ret.cmds = << <<W("docker"), W("network"), W("remove")>> \o GivenRefs >>
             /\ call.x.t # "list" => ret.cmds = <<NetworkRemoveCmd(PyList(<<call.x>>))>>

\* a remove of a list of two different references has run
C5_Witness ==
    /\ pc = "done" /\ call.op = "VolumeCLI.remove" /\ ret.err = "ok"
    /\ call.x.t = "list" /\ Len(call.x.v) = 2 /\ call.x.v[1] # call.x.v[2]

\* C6: NetworkCLI.inspect of one str returns one handle for it; of a list of
\* n references it returns a list of n handles, the i-th for the i-th
\* reference, for every n from 0.
C6_InspectIsOneToOne ==
    (pc = "done" /\ call.op = "NetworkCLI.inspect") =>
       /\ ret.err = "ok"
       /\ call.x.t = "str" =>
             /\ ret.val.t = "Network" /\ ret.val.v.reference = call.x.v
       /\ call.x.t = "list" =>
             /\ ret.val.t = "list" /\ Len(ret.val.v) = Len(call.x.v)
             /\ \A i \in 1..Len(call.x.v) :
                   /\ ret.val.v[i].t = "Network"
                   /\ ret.val.v[i].v.reference = call.x.v[i].v

\* inspect of a list of two different references has returned
C6_Witness ==
    /\ pc = "done" /\ call.op = "NetworkCLI.inspect"
    /\ call.x.t = "list" /\ Len(call.x.v) = 2 /\ call.x.v[1] # call.x.v[2]

\* how often the adjacent pair flag, text occurs in the command that ran,
\* after the "volume create" subcommand
PairCount(flag, text) ==
    Cardinality({i \in 4..(Len(ret.cmds[1]) - 1) :
                    ret.cmds[1][i] = W(flag) /\ ret.cmds[1][i + 1] = PyStr(text)})
\* the text k=v of an item
ItemText(item) == item[1] \o <<"=">> \o item[2]
HasEquals(text) == \E i \in 1..Len(text) : text[i] = "="

\* C7 as stated: for every entry of labels the pair "--label", "k=v" occurs
\* exactly once after "volume create", and likewise "--opt", "k=v" for
\* every entry of options.
C7_EachPairExactlyOnce ==
    (pc = "done" /\ call.op = "VolumeCLI.create") =>
       /\ ret.cmds[1][2] = W("volume") /\ ret.cmds[1][3] = W("create")
       /\ \A j \in 1..Len(call.labels) : PairCount("--label", ItemText(call.labels[j])) = 1
       /\ \A j \in 1..Len(call.options) : PairCount("--opt", ItemText(call.options[j])) = 1

\* C7 as amended: the pair occurs once for each entry of the mapping whose
\* text k=v is the same, which is exactly once when no key of the mapping
\* contains "=".
C7_OnePairPerEntry ==
    (pc = "done" /\ call.op = "VolumeCLI.create") =>
       /\ ret.cmds[1][2] = W("volume") /\ ret.cmds[1][3] = W("create")
       /\ \A j \in 1..Len(call.labels) :
             /\ PairCount("--label", ItemText(call.labels[j])) =
                   Cardinality({i \in 1..Len(call.labels) :
                                   ItemText(call.labels[i]) = ItemText(call.labels[j])})
             /\ (\A i \in 1..Len(call.labels) : ~HasEquals(call.labels[i][1]))
                   => PairCount("--label", ItemText(call.labels[j])) = 1
       /\ \A j \in 1..Len(call.options) :
             /\ PairCount("--opt", ItemText(call.options[j])) =
                   Cardinality({i \in 1..Len(call.options) :
                                   ItemText(call.options[i]) = ItemText(call.options[j])})
             /\ (\A i \in 1..Len(call.options) : ~HasEquals(call.options[i][1]))
                   => PairCount("--opt", ItemText(call.options[j])) = 1

\* create has run with labels {"env": "prod", "a": "prod"} and an option
C7_Witness ==
    /\ pc = "done" /\ call.op = "VolumeCLI.create" /\ ret.err = "ok"
    /\ call.labels = << <<<<"env">>, <<"prod">>>>, <<<<"a">>, <<"prod">>>> >>
    /\ Len(call.options) >= 1
    /\ PairCount("--label", <<"env", "=", "prod">>) = 1

\* the one command leaving the with statement must have run
RemoveOfNetwork == <<W("docker"), W("network"), W("remove"), call.x>>

\* C8 as stated: leaving the with block runs exactly one "network remove"
\* for that network, whether the block finished or raised, and an exception
\* raised in the block reaches the caller.
C8_RemovedOnceAndBlockErrorRaised ==
    (pc = "done" /\ call.op = "with") =>
       /\ ret.cmds = <<RemoveOfNetwork>>
       /\ ret.blockRaised => ret.err = "BlockError"

\* C8 as amended: exactly one remove command is run either way; when that
\* command succeeds the block's exception (if any) reaches the caller, and
\* when it fails the removal's error reaches the caller instead.
C8_RemovedOnceAndErrorsSurface ==
    (pc = "done" /\ call.op = "with") =>
       /\ ret.cmds = <<RemoveOfNetwork>>
       /\ ret.exitErr = "ok" => ret.err = (IF ret.blockRaised THEN "BlockError" ELSE "ok")
       /\ ret.exitErr # "ok" => ret.err = ret.exitErr

\* the block raised, the network was removed, the exception reached the caller
C8_Witness ==
    /\ pc = "done" /\ call.op = "with"
    /\ ret.blockRaised /\ ret.exitErr = "ok" /\ ret.err = "BlockError"
    /\ Len(ret.cmds) = 1

====
